---- MODULE Spec2Model ----
(***************************************************************************)
(* T9 keypad firmware (I2C keyboard-controller emulation): the matrix      *)
(* scanner, the 16-byte event queue with its register-addressed bus       *)
(* responder, and the sleep/wake loop.                                     *)
(*                                                                         *)
(* The foreground (loop, enterSleep, scanKeypad, queueKeyEvent) advances   *)
(* one step at a time through the positions of `pc`.  The interrupt        *)
(* handlers (the two bus callbacks and the wake-line ISR) run to           *)
(* completion between any two foreground steps: on this single core an     *)
(* interrupt handler is never itself preempted, the foreground always is.  *)
(***************************************************************************)
EXTENDS Integers, Sequences, FiniteSets

(* ------------------------- program constants -------------------------- *)
I2C_BUFFER_SIZE == 16
ROW_COUNT == 4
COL_COUNT == 3
NUM_KEYS == ROW_COUNT * COL_COUNT
DEBOUNCE_MS == 20
SCAN_INTERVAL_MS == 10
REG_KEY_EVENT == 132
REG_PROBE == 144
PRESS_FLAG == 128

(* ------------------------------ bounds -------------------------------- *)
\* keys the environment operates: 0, 5, 10, ... (one per row and column)
NumPressable == 2
\* environment events in one run: key-state changes and bus transactions
\* (writes and reads) together
MaxEnvEvents == 4
\* last value of the millisecond clock
MaxMillis == 20

PressableKeys == {k \in 0..(NUM_KEYS - 1) : k % 5 = 0 /\ k \div 5 < NumPressable}
\* first byte of a host write: the two registers the responder knows, one other
RegValues == {REG_KEY_EVENT, REG_PROBE, 1}
\* values of the data bytes a host write carries after the register byte
DataBytes == {255}
\* number of data bytes after the register byte
TrailingLens == {0, 1, I2C_BUFFER_SIZE - 1}
\* milliseconds that pass between two points at which the clock can be seen
\* to differ: half a scan interval, so that the cadence test is met below, at
\* and above SCAN_INTERVAL_MS
TickSteps == {SCAN_INTERVAL_MS \div 2}
\* what a read past the end of i2cBuffer may find there
SlackBytes == {0, 255}

Peripherals == {"timer0", "timer1", "timer2", "spi", "usart0", "adc"}

VARIABLES
  \* ---- the program's globals
  systemWakeUp, i2cBuffer, i2cWriteIndex, newKeyEvent,
  lastScanTime, lastKeyState, currentKeyState, currentRegister,
  \* ---- the foreground's position and locals
  pc,        \* where loop / enterSleep / scanKeypad / queueKeyEvent stands
  row, col,  \* scanKeypad's loop counters
  now,       \* loop's local `now`
  half,      \* which of queueKeyEvent's two stores is in progress (1 or 2)
  idxReg,    \* the value of i2cWriteIndex loaded for the store in progress
  pend,      \* the parts of `i2cBuffer[i2cWriteIndex++] = b` still to be written
  \* ---- hardware
  rows,      \* level driven on each row line
  powered,   \* on-chip subsystems that are enabled
  keys,      \* physical switch state, 1 = closed
  ms,        \* the millis() clock
  overrun,   \* a store or a read went past the end of i2cBuffer
  \* ---- the host's view
  response,  \* bytes of the last bus read's response
  readReg,   \* the register that was selected when that read was served
  \* ---- history
  toggles, busOps,
  enqueued,  \* bytes queueKeyEvent stored since the last event-buffer read
  emitted,   \* events scanKeypad handed to queueKeyEvent in the current pass
  prevState, \* lastKeyState as it was when the current pass began
  dropped,   \* events queueKeyEvent refused in the current pass
  qkQueue,   \* queue contents when the enqueue in progress passed its check
  qkEvent,   \* the two bytes of the enqueue in progress
  preempt,   \* what ran between that check and the end of the enqueue
  wokeBy,    \* what ended the last sleep
  wokeAt,    \* millis() at the last resume
  scansSinceWake,  \* scan passes completed since the last resume
  observed,  \* every level change scanKeypad has detected, in order
  dataWritten,     \* a host write has carried data bytes after its register byte
  hostLevel, \* per key, the level the delivered events left the host with
  pressedAsleep,   \* the key closed during the sleep in progress (-1: none)
  heldAtWake,      \* the key closed during the sleep that the last wake-line
                   \* wake ended, no key operated since (-1: none)
  scanStartedAt    \* millis() when loop last called scanKeypad (-1: never)

progVars == <<systemWakeUp, i2cBuffer, i2cWriteIndex, newKeyEvent,
              lastScanTime, lastKeyState, currentKeyState, currentRegister>>
fgVars   == <<pc, row, col, now, half, idxReg, pend>>
hwVars   == <<rows, powered, keys, ms, overrun>>
hostVars == <<response, readReg>>
envHist  == <<toggles, busOps>>
passHist == <<emitted, prevState, dropped>>
qkHist   == <<qkQueue, qkEvent, preempt>>
wakeHist == <<wokeBy, wokeAt, scansSinceWake>>
runHist  == <<observed, dataWritten, hostLevel, pressedAsleep, heldAtWake,
              scanStartedAt>>
vars == <<progVars, fgVars, hwVars, hostVars, envHist, enqueued, passHist, qkHist,
          wakeHist, runHist>>

(* ------------------------------ helpers ------------------------------- *)
\* for (i = 0; i < ROW_COUNT; i++) digitalWrite(ROWS[i], level)
AllRowsButLast(level) ==
  [r \in 0..(ROW_COUNT - 1) |-> IF r < ROW_COUNT - 1 THEN level ELSE "HIGH"]
AllRows(level) == [r \in 0..(ROW_COUNT - 1) |-> level]

\* the first n bytes of the buffer, as the host receives them
BufferPrefix(buf, n) == [i \in 1..n |-> buf[i - 1]]

\* the queue: the bytes below the write index
Queue == BufferPrefix(i2cBuffer, i2cWriteIndex)

\* positions of queueKeyEvent after its capacity check has passed
QkStorePcs == {"qk_load", "qk_store"}

\* positions inside scanKeypad and queueKeyEvent
ScanPcs == {"scan_row", "scan_col", "qk_check", "qk_load", "qk_store"}

\* Positions at which the model lets a bus callback preempt the foreground.
\* A callback reads and writes only the queue, the write index and the
\* selected register, and resumes a halted CPU.  The foreground touches the
\* queue only inside queueKeyEvent and can be resumed only in sleep_cpu, so a
\* callback that runs at any other position leaves the same state as one that
\* runs at the next of these positions the foreground comes to.
BusPreemptPcs == {"loop", "asleep", "qk_check", "qk_load", "qk_store"}

\* Positions at which the model lets the wake-line ISR preempt the foreground.
\* The ISR only sets systemWakeUp, which loop tests at "loop" and clears at
\* "clear", and resumes a halted CPU.  An ISR that runs after the clear and
\* before the next test leaves the same state as one that runs at "loop"; one
\* that runs after the test and before sleep_cpu, the same as one that runs at
\* "sleep_cpu"; one that runs after the resume and before the clear, the same
\* as one that runs at "clear".
WakePreemptPcs == {"loop", "sleep_cpu", "asleep", "clear"}

\* Position at which the model lets the clock advance: just before the one
\* place where loop reads it into `now`.  timer0 is off from enterSleep's
\* first line to its resume, and time that passes anywhere else while awake
\* is seen by the program only at its next read.
TickPcs == {"clear"}

TogglePcs == {"loop", "asleep"}

\* an interrupt that fires while the CPU is halted in sleep_cpu resumes it:
\* the handler runs and execution continues after the sleep instruction
AfterInterrupt(p) == IF p = "asleep" THEN "resume" ELSE p

(* ------------------- pure parts of the handlers ----------------------- *)
\* onI2CReceive's while loop: every byte after the register byte is stored at
\* the write index while the index is below the buffer size
RECURSIVE ReceiveData(_, _, _)
ReceiveData(buf, idx, bytes) ==
  IF bytes = <<>> THEN [buf |-> buf, idx |-> idx]
  ELSE IF idx < I2C_BUFFER_SIZE
       THEN ReceiveData([buf EXCEPT ![idx] = Head(bytes)], (idx + 1) % 256, Tail(bytes))
       ELSE ReceiveData(buf, idx, Tail(bytes))

\* onI2CReceive's register select: the first byte of a write that has one
SelectedAfterWriteOrZero(reg, data) == IF data = <<>> THEN 0 ELSE Head(data)
SelectedAfterWrite(reg, data) == IF data = <<>> THEN reg ELSE Head(data)

\* onI2CRequest's answer to the identification probe
ProbeReplyFromQueue == Queue
ProbeReply == <<0>>

\* onI2CRequest's test for the register that is served from the queue
ServesQueueUnlessProbe(reg) == reg # REG_PROBE
ServesQueue(reg) == reg = REG_KEY_EVENT

\* loop's cadence test on now = millis()
ScanDueAbsolute(t, last) == t >= SCAN_INTERVAL_MS
ScanDue(t, last) == t - last >= SCAN_INTERVAL_MS

\* queueKeyEvent's capacity check
HasRoomOffByOne(idx) == idx + 1 <= I2C_BUFFER_SIZE
HasRoom(idx) == idx + 2 <= I2C_BUFFER_SIZE

\* queueKeyEvent's status byte
StatusByteRaw(pressed) == pressed
StatusByte(pressed) == IF pressed # 0 THEN PRESS_FLAG ELSE 0

\* scanKeypad's key index
KeyIndex(r, c) == r * COL_COUNT + c

\* scanKeypad's edge detection
ChangedLevel(cur, last) == cur # 0
Changed(cur, last) == cur # last

\* digitalRead(COLS[c]) == LOW: the pulled-up column is low when a closed
\* switch connects it to a row that is driven low
ColumnLow(c) ==
  \E r \in 0..(ROW_COUNT - 1) : rows[r] = "LOW" /\ keys[r * COL_COUNT + c] = 1

InEnqueue == pc \in QkStorePcs

\* The host reads a response as [key index, status] pairs and follows each
\* key's level: a press for a key it holds as pressed, or a release for a key
\* it holds as released, marks the key as misordered for good.  Bytes that
\* form no event (an index past the last key, a status other than 0x80 or
\* 0x00, an odd byte at the end) are passed over.
RECURSIVE Deliver(_, _)
Deliver(level, r) ==
  IF Len(r) < 2 THEN level
  ELSE LET k == r[1]
           to == IF r[2] = PRESS_FLAG THEN "down" ELSE "up"
           rest == SubSeq(r, 3, Len(r))
       IN IF k \notin 0..(NUM_KEYS - 1) \/ r[2] \notin {PRESS_FLAG, 0}
            THEN Deliver(level, rest)
            ELSE Deliver([level EXCEPT ![k] = IF level[k] = to THEN "misordered"
                                              ELSE IF level[k] = "misordered"
                                                   THEN "misordered" ELSE to],
                         rest)

(* ------------------------------- Init --------------------------------- *)
Init ==
  /\ systemWakeUp = FALSE
  /\ i2cBuffer = [i \in 0..(I2C_BUFFER_SIZE - 1) |-> 0]
  /\ i2cWriteIndex = 0
  /\ newKeyEvent = FALSE
  /\ lastScanTime = 0
  /\ lastKeyState = [k \in 0..(NUM_KEYS - 1) |-> 0]
  /\ currentKeyState = [k \in 0..(NUM_KEYS - 1) |-> 0]
  /\ currentRegister = 0
  /\ pc = "loop" /\ row = 0 /\ col = 0 /\ now = 0
  /\ half = 1 /\ idxReg = 0 /\ pend = {}
  /\ rows = AllRows("HIGH")
  /\ powered = Peripherals
  /\ keys = [k \in 0..(NUM_KEYS - 1) |-> 0]
  /\ ms = 0
  /\ overrun = FALSE
  /\ response = <<>> /\ readReg = -1
  /\ toggles = 0 /\ busOps = 0
  /\ enqueued = <<>>
  /\ emitted = <<>> /\ prevState = [k \in 0..(NUM_KEYS - 1) |-> 0] /\ dropped = 0
  /\ qkQueue = <<>> /\ qkEvent = <<0, 0>> /\ preempt = "none"
  /\ wokeBy = "none" /\ wokeAt = 0 /\ scansSinceWake = 0
  /\ observed = <<>> /\ dataWritten = FALSE
  /\ hostLevel = [k \in 0..(NUM_KEYS - 1) |-> "up"]
  /\ pressedAsleep = -1 /\ heldAtWake = -1
  /\ scanStartedAt = -1

(* ------------------------- interrupt handlers ------------------------- *)
\* the bus write callback, with the bytes of the transaction
onI2CReceive(data) ==
  /\ ~overrun /\ toggles + busOps < MaxEnvEvents
  /\ pc \in BusPreemptPcs
  /\ LET r == IF data = <<>> THEN [buf |-> i2cBuffer, idx |-> i2cWriteIndex]
              ELSE ReceiveData(i2cBuffer, i2cWriteIndex, Tail(data))
     IN /\ currentRegister' = SelectedAfterWrite(currentRegister, data)
        /\ i2cBuffer' = r.buf
        /\ i2cWriteIndex' = r.idx
  /\ pc' = AfterInterrupt(pc)
  /\ wokeBy' = IF pc = "asleep" THEN "bus" ELSE wokeBy
  /\ preempt' = IF InEnqueue THEN "many" ELSE preempt
  /\ busOps' = busOps + 1
  /\ UNCHANGED <<systemWakeUp, newKeyEvent, lastScanTime, lastKeyState, currentKeyState>>
  /\ UNCHANGED <<row, col, now, half, idxReg, pend>>
  /\ pressedAsleep' = IF pc = "asleep" THEN -1 ELSE pressedAsleep
  /\ heldAtWake' = IF pc = "asleep" THEN -1 ELSE heldAtWake
  /\ UNCHANGED <<hwVars, hostVars, toggles, enqueued, passHist, qkQueue, qkEvent,
                 wokeAt, scansSinceWake, observed, hostLevel, scanStartedAt>>
  /\ dataWritten' = (dataWritten \/ Len(data) > 1)

\* the bus read callback
onI2CRequest ==
  /\ ~overrun /\ toggles + busOps < MaxEnvEvents
  /\ pc \in BusPreemptPcs
  /\ IF currentRegister = REG_PROBE
       THEN /\ response' = ProbeReply
            /\ UNCHANGED <<i2cWriteIndex, enqueued, overrun>>
     ELSE IF ServesQueue(currentRegister)
       THEN /\ IF i2cWriteIndex <= I2C_BUFFER_SIZE
                 THEN response' = Queue /\ overrun' = overrun
                 ELSE /\ \E pad \in [1..(i2cWriteIndex - I2C_BUFFER_SIZE) -> SlackBytes] :
                           response' = BufferPrefix(i2cBuffer, I2C_BUFFER_SIZE) \o pad
                      /\ overrun' = TRUE
            /\ i2cWriteIndex' = 0
            /\ enqueued' = <<>>
       ELSE /\ response' = <<0>>
            /\ UNCHANGED <<i2cWriteIndex, enqueued, overrun>>
  /\ readReg' = currentRegister
  /\ hostLevel' = IF currentRegister = REG_KEY_EVENT
                    THEN Deliver(hostLevel, response') ELSE hostLevel
  /\ pc' = AfterInterrupt(pc)
  /\ wokeBy' = IF pc = "asleep" THEN "bus" ELSE wokeBy
  /\ preempt' = IF ~InEnqueue THEN preempt
                ELSE IF preempt = "none" /\ currentRegister = REG_KEY_EVENT
                     THEN "read" ELSE "many"
  /\ busOps' = busOps + 1
  /\ UNCHANGED <<systemWakeUp, i2cBuffer, newKeyEvent, lastScanTime, lastKeyState,
                 currentKeyState, currentRegister>>
  /\ UNCHANGED <<row, col, now, half, idxReg, pend>>
  /\ UNCHANGED <<rows, powered, keys, ms>>
  /\ UNCHANGED <<toggles, passHist, qkQueue, qkEvent, wokeAt, scansSinceWake>>
  /\ pressedAsleep' = IF pc = "asleep" THEN -1 ELSE pressedAsleep
  /\ heldAtWake' = IF pc = "asleep" THEN -1 ELSE heldAtWake
  /\ UNCHANGED <<observed, dataWritten, scanStartedAt>>

\* ISR(INT0_vect) and ISR(INT1_vect): a wake line changed level
WakeISR ==
  /\ ~overrun
  /\ pc \in WakePreemptPcs
  /\ systemWakeUp' = TRUE
  /\ pc' = AfterInterrupt(pc)
  /\ wokeBy' = IF pc = "asleep" THEN "wake" ELSE wokeBy
  /\ UNCHANGED <<i2cBuffer, i2cWriteIndex, newKeyEvent, lastScanTime, lastKeyState,
                 currentKeyState, currentRegister>>
  /\ UNCHANGED <<row, col, now, half, idxReg, pend>>
  /\ pressedAsleep' = IF pc = "asleep" THEN -1 ELSE pressedAsleep
  /\ heldAtWake' = IF pc = "asleep" THEN pressedAsleep ELSE heldAtWake
  /\ UNCHANGED <<hwVars, hostVars, envHist, enqueued, passHist, qkHist, wokeAt,
                 scansSinceWake, observed, dataWritten, hostLevel, scanStartedAt>>

(* ---------------------------- environment ----------------------------- *)
\* A switch opens or closes.  A column read depends only on the one switch at
\* (row, col), so a change during a pass is sampled exactly as the same change
\* before the pass (switch not yet sampled) or after it (already sampled):
\* changes are placed between passes, awake or asleep.
KeyToggle(k) ==
  /\ ~overrun /\ toggles + busOps < MaxEnvEvents
  /\ pc \in TogglePcs
  /\ keys' = [keys EXCEPT ![k] = 1 - keys[k]]
  /\ toggles' = toggles + 1
  /\ pressedAsleep' = IF pc = "asleep" /\ keys[k] = 0 THEN k ELSE -1
  /\ heldAtWake' = -1
  /\ UNCHANGED <<progVars, fgVars, rows, powered, ms, overrun>>
  /\ UNCHANGED <<hostVars, busOps, enqueued, passHist, qkHist, wakeHist>>
  /\ UNCHANGED <<observed, dataWritten, hostLevel, scanStartedAt>>

\* timer0 advances millis(): only while timer0 is powered and the CPU runs
Tick ==
  /\ ~overrun
  /\ pc \in TickPcs /\ "timer0" \in powered
  /\ \E d \in TickSteps : ms + d <= MaxMillis /\ ms' = ms + d
  /\ UNCHANGED <<progVars, fgVars, rows, powered, keys, overrun>>
  /\ UNCHANGED <<hostVars, envHist, enqueued, passHist, qkHist, wakeHist>>
  /\ UNCHANGED runHist

(* ------------------------------ the loop ------------------------------ *)
\* loop: the test of the wake flag
loop_TestWake ==
  /\ ~overrun /\ pc = "loop"
  /\ pc' = IF ~systemWakeUp THEN "sleep_prep" ELSE "clear"
  /\ UNCHANGED <<progVars, row, col, now, half, idxReg, pend, hwVars>>
  /\ UNCHANGED <<hostVars, envHist, enqueued, passHist, qkHist, wakeHist>>
  /\ UNCHANGED runHist

\* enterSleep up to the sleep instruction: peripherals off, rows low
enterSleep_PowerDown ==
  /\ ~overrun /\ pc = "sleep_prep"
  /\ powered' = powered \ {"timer0", "timer1", "timer2", "spi", "usart0", "adc"}
  /\ rows' = AllRows("LOW")
  /\ pc' = "sleep_cpu"
  /\ UNCHANGED <<progVars, row, col, now, half, idxReg, pend, keys, ms, overrun>>
  /\ UNCHANGED <<hostVars, envHist, enqueued, passHist, qkHist, wakeHist>>
  /\ UNCHANGED runHist

\* sleep_cpu(): the CPU halts until an interrupt fires
enterSleep_SleepCpu ==
  /\ ~overrun /\ pc = "sleep_cpu"
  /\ pc' = "asleep"
  /\ UNCHANGED <<progVars, row, col, now, half, idxReg, pend, hwVars>>
  /\ UNCHANGED <<hostVars, envHist, enqueued, passHist, qkHist, wakeHist>>
  /\ UNCHANGED runHist

\* enterSleep after the sleep instruction: timer0 and usart0 on, rows high
enterSleep_Resume ==
  /\ ~overrun /\ pc = "resume"
  /\ powered' = powered \cup {"timer0", "usart0"}
  /\ rows' = AllRows("HIGH")
  /\ pc' = "clear"
  /\ wokeAt' = ms
  /\ scansSinceWake' = 0
  /\ UNCHANGED <<progVars, row, col, now, half, idxReg, pend, keys, ms, overrun>>
  /\ UNCHANGED <<hostVars, envHist, enqueued, passHist, qkHist, wokeBy>>
  /\ UNCHANGED runHist

\* loop: systemWakeUp = false
loop_ClearWake ==
  /\ ~overrun /\ pc = "clear"
  /\ systemWakeUp' = FALSE
  /\ pc' = "millis"
  /\ UNCHANGED <<i2cBuffer, i2cWriteIndex, newKeyEvent, lastScanTime, lastKeyState,
                 currentKeyState, currentRegister>>
  /\ UNCHANGED <<row, col, now, half, idxReg, pend, hwVars>>
  /\ UNCHANGED <<hostVars, envHist, enqueued, passHist, qkHist, wakeHist>>
  /\ UNCHANGED runHist

\* scanKeypad is entered: its row counter starts at 0
EnterScan ==
  /\ pc' = "scan_row" /\ row' = 0 /\ col' = 0
  /\ emitted' = <<>>
  /\ prevState' = lastKeyState
  /\ dropped' = 0

\* loop: now = millis() and the cadence test.  lastScanTime is an earlier value
\* of the same clock, and the clock stays far below 2^32 within MaxMillis, so
\* the uint32_t difference is the plain one
loop_CheckInterval ==
  /\ ~overrun /\ pc = "millis"
  /\ now' = ms
  /\ IF ScanDue(ms, lastScanTime)
       THEN EnterScan /\ scanStartedAt' = ms
       ELSE pc' = "hold" /\ UNCHANGED <<row, col, passHist, scanStartedAt>>
  /\ UNCHANGED <<progVars, half, idxReg, pend, hwVars>>
  /\ UNCHANGED <<hostVars, envHist, enqueued, qkHist, wakeHist>>
  /\ UNCHANGED <<observed, dataWritten, hostLevel, pressedAsleep, heldAtWake>>

\* loop from its top to the call of scanKeypad, for the runs in which the wake
\* flag and the clock let it get there: neither is looked at
loop_ReachesScan ==
  /\ ~overrun /\ pc = "loop"
  /\ EnterScan
  /\ UNCHANGED <<progVars, now, half, idxReg, pend, hwVars>>
  /\ UNCHANGED <<hostVars, envHist, enqueued, qkHist, wakeHist>>
  /\ UNCHANGED runHist

\* loop: lastScanTime = now
loop_SetLastScan ==
  /\ ~overrun /\ pc = "set_last"
  /\ lastScanTime' = now
  /\ pc' = "hold"
  /\ emitted' = <<>> /\ prevState' = lastKeyState /\ dropped' = 0
  /\ UNCHANGED <<systemWakeUp, i2cBuffer, i2cWriteIndex, newKeyEvent, lastKeyState,
                 currentKeyState, currentRegister>>
  /\ UNCHANGED <<row, col, now, half, idxReg, pend, hwVars>>
  /\ UNCHANGED <<hostVars, envHist, enqueued, qkHist, wakeHist>>
  /\ UNCHANGED runHist

\* loop: the debounce test, whose body is empty, and the return
loop_Hold ==
  /\ ~overrun /\ pc = "hold"
  /\ pc' = "loop"
  /\ UNCHANGED <<progVars, row, col, now, half, idxReg, pend, hwVars>>
  /\ UNCHANGED <<hostVars, envHist, enqueued, passHist, qkHist, wakeHist>>
  /\ UNCHANGED runHist

(* ----------------------------- scanKeypad ----------------------------- *)
\* the column loop moves on: next column, or next row after the last column
ScanAdvance ==
  IF col + 1 < COL_COUNT
    THEN pc' = "scan_col" /\ col' = col + 1 /\ row' = row
    ELSE pc' = "scan_row" /\ col' = 0 /\ row' = row + 1

\* all rows high, then the current row low
scanKeypad_SelectRow ==
  /\ ~overrun /\ pc = "scan_row" /\ row < ROW_COUNT
  /\ rows' = [AllRows("HIGH") EXCEPT ![row] = "LOW"]
  /\ pc' = "scan_col" /\ col' = 0
  /\ UNCHANGED <<progVars, row, now, half, idxReg, pend, powered, keys, ms, overrun>>
  /\ UNCHANGED <<hostVars, envHist, enqueued, passHist, qkHist, wakeHist>>
  /\ UNCHANGED runHist

\* The column loop from the current column on: each column is read and
\* compared with the key's stored state, up to the first key that changed
\* (queueKeyEvent is then called for it) or to the end of the row.  The reads
\* of unchanged keys touch nothing an interrupt handler reads, so they are
\* taken in one step with the read that follows them.
scanKeypad_Sample ==
  /\ ~overrun /\ pc = "scan_col"
  /\ LET isPressed(c) == IF ColumnLow(c) THEN 1 ELSE 0
         changed == {c \in col..(COL_COUNT - 1) :
                       Changed(isPressed(c), lastKeyState[KeyIndex(row, c)])}
         stop == IF changed = {} THEN COL_COUNT
                 ELSE CHOOSE c \in changed : \A d \in changed : c <= d
         Read(state, c) == IF col <= c /\ c <= stop
                             THEN [state EXCEPT ![KeyIndex(row, c)] = isPressed(c)]
                             ELSE state
     IN /\ currentKeyState' = Read(Read(Read(currentKeyState, 0), 1), COL_COUNT - 1)
        /\ IF stop < COL_COUNT
             THEN /\ lastKeyState' = [lastKeyState EXCEPT
                                        ![KeyIndex(row, stop)] = isPressed(stop)]
                  /\ emitted' = Append(emitted, <<KeyIndex(row, stop), isPressed(stop)>>)
                  /\ observed' = Append(observed, <<row, stop, isPressed(stop)>>)
                  /\ pc' = "qk_check" /\ col' = stop /\ row' = row
             ELSE /\ pc' = "scan_row" /\ col' = 0 /\ row' = row + 1
                  /\ UNCHANGED <<lastKeyState, emitted, observed>>
  /\ UNCHANGED <<systemWakeUp, i2cBuffer, i2cWriteIndex, newKeyEvent, lastScanTime,
                 currentRegister>>
  /\ UNCHANGED <<now, half, idxReg, pend, hwVars>>
  /\ UNCHANGED <<hostVars, envHist, enqueued, prevState, dropped, qkHist, wakeHist>>
  /\ UNCHANGED <<dataWritten, hostLevel, pressedAsleep, heldAtWake, scanStartedAt>>

\* after the last row: all rows back to high, and the return to loop
scanKeypad_Done ==
  /\ ~overrun /\ pc = "scan_row" /\ row = ROW_COUNT
  /\ rows' = AllRows("HIGH")
  /\ pc' = "set_last" /\ row' = 0
  /\ scansSinceWake' = IF wokeBy = "none" THEN 0
                       ELSE IF scansSinceWake < 2 THEN scansSinceWake + 1 ELSE 2
  /\ qkQueue' = <<>> /\ qkEvent' = <<0, 0>> /\ preempt' = "none"
  /\ UNCHANGED <<progVars, col, now, half, idxReg, pend, powered, keys, ms, overrun>>
  /\ UNCHANGED <<hostVars, envHist, enqueued, passHist, wokeBy, wokeAt>>
  /\ UNCHANGED runHist

(* ---------------------------- queueKeyEvent --------------------------- *)
\* queueKeyEvent(keyIndex, isPressed): the capacity check
queueKeyEvent_Check ==
  /\ ~overrun /\ pc = "qk_check"
  /\ LET keyIndex == KeyIndex(row, col)
     IN IF HasRoom(i2cWriteIndex)
          THEN /\ pc' = "qk_load" /\ half' = 1
               /\ qkQueue' = Queue
               /\ qkEvent' = <<keyIndex, StatusByte(currentKeyState[keyIndex])>>
               /\ preempt' = "none"
               /\ UNCHANGED <<row, col, dropped>>
          ELSE /\ ScanAdvance
               /\ dropped' = dropped + 1
               /\ UNCHANGED <<half, qkHist>>
  /\ UNCHANGED <<progVars, now, idxReg, pend, hwVars>>
  /\ UNCHANGED <<hostVars, envHist, enqueued, emitted, prevState, wakeHist>>
  /\ UNCHANGED runHist

\* i2cBuffer[i2cWriteIndex++] = b: the read of i2cWriteIndex
queueKeyEvent_Load ==
  /\ ~overrun /\ pc = "qk_load"
  /\ idxReg' = i2cWriteIndex
  /\ pend' = {"index", "byte"}
  /\ pc' = "qk_store"
  /\ UNCHANGED <<progVars, row, col, now, half, hwVars>>
  /\ UNCHANGED <<hostVars, envHist, enqueued, passHist, qkHist, wakeHist>>
  /\ UNCHANGED runHist

\* one of the statement's two writes is done; after both, the second statement
\* follows the first, and the function returns after the second
QkWritten(part) ==
  /\ pend' = pend \ {part}
  /\ IF pend # {part}
       THEN UNCHANGED <<pc, row, col, half, idxReg, newKeyEvent>>
     ELSE IF half = 1
       THEN /\ pc' = "qk_load" /\ half' = 2 /\ idxReg' = 0
            /\ UNCHANGED <<row, col, newKeyEvent>>
       ELSE /\ ScanAdvance /\ half' = 1 /\ idxReg' = 0
            /\ newKeyEvent' = TRUE

\* i2cBuffer[i2cWriteIndex++] = b: the write of the incremented index
queueKeyEvent_StoreIndex ==
  /\ ~overrun /\ pc = "qk_store" /\ "index" \in pend
  /\ i2cWriteIndex' = (idxReg + 1) % 256
  /\ QkWritten("index")
  /\ UNCHANGED <<systemWakeUp, i2cBuffer, lastScanTime, lastKeyState, currentKeyState,
                 currentRegister>>
  /\ UNCHANGED <<now, hwVars>>
  /\ UNCHANGED <<hostVars, envHist, enqueued, passHist, qkHist, wakeHist>>
  /\ UNCHANGED runHist

\* i2cBuffer[i2cWriteIndex++] = b: the write of the byte at the index read
queueKeyEvent_StoreByte ==
  /\ ~overrun /\ pc = "qk_store" /\ "byte" \in pend
  /\ IF idxReg < I2C_BUFFER_SIZE
       THEN /\ i2cBuffer' = [i2cBuffer EXCEPT ![idxReg] = qkEvent[half]]
            /\ overrun' = overrun
       ELSE /\ i2cBuffer' = i2cBuffer
            /\ overrun' = TRUE
  /\ enqueued' = Append(enqueued, qkEvent[half])
  /\ QkWritten("byte")
  /\ UNCHANGED <<systemWakeUp, i2cWriteIndex, lastScanTime, lastKeyState,
                 currentKeyState, currentRegister>>
  /\ UNCHANGED <<now, rows, powered, keys, ms>>
  /\ UNCHANGED <<hostVars, envHist, passHist, qkHist, wakeHist>>
  /\ UNCHANGED runHist

(* --------------------------- specifications --------------------------- *)
\* the bytes of a host write: nothing, a register byte alone, or the
\* event-buffer register byte and data bytes (onI2CReceive treats the data
\* bytes the same whatever the register byte is)
WriteData(lens) ==
  {<<>>} \cup {<<r>> : r \in RegValues}
         \cup {<<REG_KEY_EVENT>> \o d : d \in UNION {[1..n -> DataBytes] : n \in lens}}

\* scanner, queue and bus responder; the loop's timing is left open
Next ==
  \/ \E data \in WriteData(TrailingLens) : onI2CReceive(data)
  \/ onI2CRequest
  \/ \E k \in PressableKeys : KeyToggle(k)
  \/ loop_ReachesScan
  \/ scanKeypad_SelectRow
  \/ scanKeypad_Sample
  \/ scanKeypad_Done
  \/ queueKeyEvent_Check
  \/ queueKeyEvent_Load
  \/ queueKeyEvent_StoreIndex
  \/ queueKeyEvent_StoreByte
  \/ loop_SetLastScan
  \/ loop_Hold

Spec == Init /\ [][Next]_vars

\* the host writes of the sleep/wake runs: no byte, or the byte of one of the
\* two registers the responder knows
SleepWrites == {<<>>, <<REG_KEY_EVENT>>, <<REG_PROBE>>}

\* the loop with its clock, the sleep instruction and the wake interrupt
SleepNext ==
  \/ \E data \in SleepWrites : onI2CReceive(data)
  \/ onI2CRequest
  \/ WakeISR
  \/ \E k \in PressableKeys : KeyToggle(k)
  \/ Tick
  \/ loop_TestWake
  \/ enterSleep_PowerDown
  \/ enterSleep_SleepCpu
  \/ enterSleep_Resume
  \/ loop_ClearWake
  \/ loop_CheckInterval
  \/ scanKeypad_SelectRow
  \/ scanKeypad_Sample
  \/ scanKeypad_Done
  \/ queueKeyEvent_Check
  \/ queueKeyEvent_Load
  \/ queueKeyEvent_StoreIndex
  \/ queueKeyEvent_StoreByte
  \/ loop_SetLastScan
  \/ loop_Hold

SpecSleep == Init /\ [][SleepNext]_vars

(* ------------------------------- claims ------------------------------- *)
\* C1: a read of the event-buffer register returns exactly the bytes that
\* queueKeyEvent stored since the previous such read, in order (so nothing when
\* nothing was stored in between).
C1_ReadReturnsEnqueued ==
  [][(onI2CRequest /\ currentRegister = REG_KEY_EVENT) => response' = enqueued]_vars

\* C2: a bus write of one or more bytes selects the register named by its
\* first byte and changes neither the queue's bytes nor its write index.
C2_TrailingBytesIgnored ==
  [][\A data \in WriteData(TrailingLens) :
        (data # <<>> /\ onI2CReceive(data)) =>
           /\ currentRegister' = Head(data)
           /\ i2cBuffer' = i2cBuffer
           /\ i2cWriteIndex' = i2cWriteIndex]_vars

\* C3: the write index never exceeds the capacity, no byte is stored or read
\* outside the buffer, and no response is longer than the buffer.
C3_IndexWithinCapacity ==
  /\ i2cWriteIndex <= I2C_BUFFER_SIZE
  /\ ~overrun
  /\ Len(response) <= I2C_BUFFER_SIZE

\* an enqueue has just returned, and exactly one event-buffer read (and no
\* other bus callback) ran between its capacity check and its return
EnqueuePreemptedByRead == preempt = "read" /\ pc \in {"scan_col", "scan_row"}

\* C4: an event-buffer read that preempts an enqueue behaves as if it ran
\* wholly before it (the host gets the old queue, the event is queued) or
\* wholly after it (the host gets the old queue and the event, the queue is
\* empty).
C4_ReadAtomicWithEnqueue ==
  EnqueuePreemptedByRead =>
    \/ response = qkQueue /\ Queue = qkEvent
    \/ response = qkQueue \o qkEvent /\ Queue = <<>>

\* C5: queueKeyEvent called with fewer than 2 free slots (write index above
\* 14) leaves the buffer and the write index as they are and goes on to store
\* neither byte of the event.
C5_FullQueueDropsEvent ==
  [][(queueKeyEvent_Check /\ i2cWriteIndex > I2C_BUFFER_SIZE - 2) =>
        /\ i2cBuffer' = i2cBuffer
        /\ i2cWriteIndex' = i2cWriteIndex
        /\ enqueued' = enqueued
        /\ pc' \notin QkStorePcs]_vars

\* an event was refused with exactly one slot free, and the pass went on
C5_Witness ==
  /\ dropped > 0
  /\ i2cWriteIndex = I2C_BUFFER_SIZE - 1
  /\ pc \in {"scan_col", "scan_row"}

\* a response made of whole events: key index, then press or release status
WholeEvents(r) ==
  /\ Len(r) % 2 = 0
  /\ \A i \in 1..Len(r) :
       IF i % 2 = 1 THEN r[i] \in 0..(NUM_KEYS - 1) ELSE r[i] \in {PRESS_FLAG, 0}

\* C6: every response to an event-buffer read is a sequence of whole events.
C6_ResponseIsWholeEvents ==
  readReg = REG_KEY_EVENT => WholeEvents(response)

\* the events of a pass that sampled `cur` after `prev`: one per key whose
\* level differs, in increasing key index
RECURSIVE EventsFrom(_, _, _)
EventsFrom(k, prev, cur) ==
  IF k = NUM_KEYS THEN <<>>
  ELSE (IF cur[k] # prev[k] THEN <<(<<k, cur[k]>>)>> ELSE <<>>)
       \o EventsFrom(k + 1, prev, cur)

\* C7: when a scan pass ends, the events it handed to queueKeyEvent are exactly
\* one per key whose sampled level differs from the level stored by the
\* previous pass, in increasing key index, and the stored levels are the
\* sampled ones (so a key that stays closed gives no second event).
C7_OneEventPerChange ==
  pc = "set_last" =>
    /\ emitted = EventsFrom(0, prevState, currentKeyState)
    /\ lastKeyState = currentKeyState

\* a pass ended that saw one key still closed and another one change
C7_Witness ==
  /\ pc = "set_last"
  /\ emitted # <<>>
  /\ \E k \in 0..(NUM_KEYS - 1) : prevState[k] = 1 /\ currentKeyState[k] = 1

\* C8: when the CPU halts in sleep_cpu again after a wake by a wake line,
\* exactly one scan pass has run since that wake.
C8_OneScanPerWake ==
  (pc = "asleep" /\ wokeBy = "wake") => scansSinceWake = 1

\* C9: when the CPU halts in sleep_cpu again after a wake, at least
\* DEBOUNCE_MS milliseconds of the millis clock have passed since the wake.
C9_HoldWindowBeforeSleep ==
  (pc = "asleep" /\ wokeBy # "none") => ms - wokeAt >= DEBOUNCE_MS

\* C10: execution resumes after sleep_cpu only with the wake flag set; a bus
\* callback alone does not end the sleep.
C10_ResumeOnlyByWakeFlag ==
  pc = "resume" => (systemWakeUp /\ wokeBy = "wake")

\* C11: a read served while the identification-probe register 0x90 is selected
\* answers with the single byte 0x00, whatever the queue holds and whatever
\* was written before.
C11_ProbeReadsZero ==
  [][(onI2CRequest /\ currentRegister = REG_PROBE) => response' = <<0>>]_vars

\* a probe read was answered while the queue held bytes
C11_Witness ==
  /\ readReg = REG_PROBE
  /\ response = <<0>>
  /\ i2cWriteIndex > 0

\* C12: for every key at (row, col): when all that the scanner has ever
\* detected is that key pressed and then released, no host write has carried
\* data bytes and no read was served before, a read of the event buffer made
\* between passes returns [k, 0x80, k, 0x00] with k = row * 3 + col.
C12_PressReleaseReadBack ==
  [][\A r \in 0..(ROW_COUNT - 1), c \in 0..(COL_COUNT - 1) :
        (/\ onI2CRequest
         /\ currentRegister = REG_KEY_EVENT
         /\ pc = "loop"
         /\ readReg = -1 /\ ~dataWritten
         /\ observed = << <<r, c, 1>>, <<r, c, 0>> >>)
        => response' = <<r * 3 + c, 128, r * 3 + c, 0>>]_vars

\* key 5, at row 1 and column 2, was pressed, released and read back
C12_Witness ==
  /\ readReg = REG_KEY_EVENT
  /\ response = <<5, 128, 5, 0>>
  /\ observed = << <<1, 2, 1>>, <<1, 2, 0>> >>
  /\ ~dataWritten
  /\ busOps = 2

\* C13: outside enterSleep every subsystem is enabled: what enterSleep
\* disabled it has enabled again by the time it returns.
C13_ResumeRestoresPower ==
  pc \notin {"sleep_cpu", "asleep", "resume"} => powered = Peripherals

\* C14: a read served while a register other than 0x84 is selected leaves the
\* buffer, the write index and the selected register as they are; a read of
\* 0x84 sets the write index to 0.
C14_OtherReadsLeaveQueue ==
  [][onI2CRequest =>
        IF currentRegister = REG_KEY_EVENT
          THEN i2cWriteIndex' = 0 /\ currentRegister' = currentRegister
          ELSE /\ i2cBuffer' = i2cBuffer
               /\ i2cWriteIndex' = i2cWriteIndex
               /\ currentRegister' = currentRegister]_vars

\* a read of a register that is neither 0x84 nor 0x90 was answered while key
\* events were queued
C14_Witness ==
  /\ readReg \notin {-1, REG_KEY_EVENT, REG_PROBE}
  /\ response = <<0>>
  /\ enqueued # <<>> /\ Queue = enqueued

\* C15: a step changes the selected register only if it is a bus write with
\* at least one byte, and such a write sets it to its first byte; reads,
\* zero-length writes, scan passes, enqueues, sleep and wake leave it alone.
C15_RegisterFollowsWrites ==
  [][/\ \A data \in SleepWrites :
          (data # <<>> /\ onI2CReceive(data)) => currentRegister' = Head(data)
     /\ currentRegister' # currentRegister
          => \E data \in SleepWrites : data # <<>> /\ onI2CReceive(data)]_vars

\* a register was selected and is still selected after a read, a wake-line
\* wake, a scan pass with an enqueue, and the return to sleep
C15_Witness ==
  /\ currentRegister = REG_PROBE /\ readReg = REG_PROBE
  /\ pc = "asleep" /\ wokeBy = "wake" /\ scansSinceWake = 1
  /\ enqueued # <<>>

\* C16: halted in sleep_cpu, all rows are low; between enterSleep's return and
\* its next call, outside a scan pass, all rows are high; at a column sample
\* and in the enqueue it calls, the row being scanned is low and the others
\* are high.
C16_RowsFollowSleepState ==
  /\ pc = "asleep" => \A r \in 0..(ROW_COUNT - 1) : rows[r] = "LOW"
  /\ pc \in {"loop", "sleep_prep", "clear", "millis", "set_last", "hold"}
       => \A r \in 0..(ROW_COUNT - 1) : rows[r] = "HIGH"
  /\ pc \in {"scan_col", "qk_check", "qk_load", "qk_store"}
       => \A r \in 0..(ROW_COUNT - 1) : rows[r] = IF r = row THEN "LOW" ELSE "HIGH"

\* the last row is being sampled in a pass that follows a sleep
C16_Witness ==
  /\ pc = "scan_col" /\ row = ROW_COUNT - 1
  /\ wokeBy # "none"

\* C17: loop calls scanKeypad only when at least SCAN_INTERVAL_MS of the millis
\* clock have passed since it last called it, and while the CPU is halted in
\* sleep_cpu no step moves the scanner or the row lines.
C17_ScanCadence ==
  [][/\ (loop_CheckInterval /\ pc' = "scan_row")
          => (scanStartedAt = -1 \/ ms - scanStartedAt >= SCAN_INTERVAL_MS)
     /\ pc = "asleep"
          => /\ pc' \in {"asleep", "resume"}
             /\ UNCHANGED <<row, col, rows, lastKeyState, currentKeyState>>]_vars

\* a second pass starts, a scan interval after the first
C17_Witness ==
  /\ pc = "scan_row" /\ row = 0
  /\ lastScanTime = SCAN_INTERVAL_MS
  /\ scanStartedAt = lastScanTime + SCAN_INTERVAL_MS

\* C18: the CPU is never halted in sleep_cpu with the wake flag set.
C18_NoLostWake ==
  ~(pc = "asleep" /\ systemWakeUp)

\* C19: a key closed during a sleep and held since: when the CPU halts again
\* after the wake-line wake that ended that sleep, a scan pass has sampled the
\* key as pressed (and so called queueKeyEvent for it).  Halted, the system
\* does nothing more until another interrupt: a press not sampled by then is
\* not sampled without further activity.
C19_HeldKeySampledBeforeSleep ==
  \A k \in 0..(NUM_KEYS - 1) :
    (pc = "asleep" /\ heldAtWake = k) => lastKeyState[k] = 1

\* C20: the events delivered to the host alternate for every key, press
\* first.
C20_DeliveredEventsAlternate ==
  \A k \in 0..(NUM_KEYS - 1) : hostLevel[k] # "misordered"

====
